---- MODULE Spec2Model ----
(***************************************************************************)
(* Model of scripts/trello_to_md.py: the conversion of a Trello export     *)
(* (lists, cards, labels, checklists) into one directory per active list   *)
(* and one Markdown file per card.                                         *)
(*                                                                         *)
(* Text is a sequence of chunks: a chunk is one character where the code   *)
(* looks at characters (names, escaped strings, digits) and a literal of   *)
(* the source where the code emits fixed text ("title: ", "___", ".md").   *)
(***************************************************************************)
EXTENDS Integers, Sequences, FiniteSets, TLC

VARIABLES inputExists, data, fs0, fsDirs, fsFiles, pc, exitStatus, stdout,
          valid_lists, cards_by_list, labels_map, folder_idx, list_dir,
          list_cards, card_i, mkdirLog, writeLog, run, snap,
          escIn, escOut, fmOut

vars == <<inputExists, data, fs0, fsDirs, fsFiles, pc, exitStatus, stdout,
          valid_lists, cards_by_list, labels_map, folder_idx, list_dir,
          list_cards, card_i, mkdirLog, writeLog, run, snap,
          escIn, escOut, fmOut>>

(***************************************************************************)
(* Bounds of the model.                                                    *)
(***************************************************************************)
MaxLists == 2
MaxCards == 2
MaxLen == 3
MaxChecklists == 2
MaxItems == 2

(***************************************************************************)
(* Characters.                                                             *)
(***************************************************************************)
BS == "\\"
DQ == "\""
NL == "\n"
CR == "\r"

Upper == <<"A","B","C","D","E","F","G","H","I","J","K","L","M",
           "N","O","P","Q","R","S","T","U","V","W","X","Y","Z">>
Lower == <<"a","b","c","d","e","f","g","h","i","j","k","l","m",
           "n","o","p","q","r","s","t","u","v","w","x","y","z">>
Digits == <<"0","1","2","3","4","5","6","7","8","9">>

\* JSON null / Python None, kept apart from every string (also the empty one).
None == <<"<None>">>

\* str(v) inside an f-string: None prints as the text None.
Str(v) == IF v = None THEN <<"None">> ELSE v

\* Python truthiness of an optional string: None and "" are falsy.
Truthy(v) == v # None /\ v # <<>>

\* str.lower() on one character.
LowerChar(c) ==
  IF \E k \in DOMAIN Upper : Upper[k] = c
  THEN Lower[CHOOSE k \in DOMAIN Upper : Upper[k] = c]
  ELSE c

\* str(n) of a non-negative integer.
RECURSIVE IntToStr(_)
IntToStr(n) ==
  IF n < 10 THEN <<Digits[n + 1]>>
  ELSE IntToStr(n \div 10) \o <<Digits[(n % 10) + 1]>>

\* str.zfill(width): pad with "0" on the left up to the width.
RECURSIVE zfill(_, _)
zfill(s, width) ==
  IF Len(s) >= width THEN s ELSE zfill(<<"0">> \o s, width)

\* str.replace(old, new) for a one-character old and any new text.
RECURSIVE Replace(_, _, _)
Replace(s, old, new) ==
  IF s = <<>> THEN <<>>
  ELSE (IF Head(s) = old THEN new ELSE <<Head(s)>>) \o Replace(Tail(s), old, new)

\* str.strip(chars): drop leading characters of the set.
RECURSIVE LStrip(_, _)
LStrip(s, chars) ==
  IF s # <<>> /\ Head(s) \in chars THEN LStrip(Tail(s), chars) ELSE s

\* str.strip(chars): drop trailing characters of the set.
RECURSIVE RStrip(_, _)
RStrip(s, chars) ==
  IF s # <<>> /\ s[Len(s)] \in chars
  THEN RStrip(SubSeq(s, 1, Len(s) - 1), chars) ELSE s

InvalidChars == {"<", ">", ":", DQ, "/", BS, "|", "?", "*"}

\* re.sub(r'[<>:"/\\|?*]', '', name)
RECURSIVE RemoveInvalid(_)
RemoveInvalid(s) ==
  IF s = <<>> THEN <<>>
  ELSE (IF Head(s) \in InvalidChars THEN <<>> ELSE <<Head(s)>>)
         \o RemoveInvalid(Tail(s))

sanitize_filename(name) ==
  LET a == RemoveInvalid(name)
      b == Replace(a, " ", <<"_">>)
      c == RStrip(LStrip(b, {" ", "-"}), {" ", "-"})
  IN  [k \in 1..Len(c) |-> LowerChar(c[k])]

\* Variant: quotes are escaped before backslashes.
escape_yaml_string_QuotesFirst(val) ==
  IF val = <<>> \/ val = None THEN <<DQ, DQ>>
  ELSE LET a == Replace(Replace(Str(val), DQ, <<BS, DQ>>), BS, <<BS, BS>>)
           b == Replace(Replace(a, NL, <<" ">>), CR, <<>>)
       IN  <<DQ>> \o b \o <<DQ>>

escape_yaml_string(val) ==
  IF val = <<>> \/ val = None THEN <<DQ, DQ>>
  ELSE LET a == Replace(Replace(Str(val), BS, <<BS, BS>>), DQ, <<BS, DQ>>)
           b == Replace(Replace(a, NL, <<" ">>), CR, <<>>)
       IN  <<DQ>> \o b \o <<DQ>>

(***************************************************************************)
(* Sorting and the frontmatter.                                            *)
(***************************************************************************)
Front(s) == SubSeq(s, 1, Len(s) - 1)

\* Variant: an element goes before the elements of equal pos (not stable).
KeepBeforeUnstable(s, x) == Cardinality({j \in DOMAIN s : s[j].pos < x.pos})

\* Number of elements of a pos-sorted sequence that stay before a new x.
KeepBefore(s, x) == Cardinality({j \in DOMAIN s : s[j].pos <= x.pos})

\* sorted(seq, key=lambda k: k['pos']) and list.sort(key=...): stable.
RECURSIVE SortByPos(_)
SortByPos(s) ==
  IF s = <<>> THEN <<>>
  ELSE LET x == s[Len(s)]
           r == SortByPos(Front(s))
           k == KeepBefore(r, x)
       IN  SubSeq(r, 1, k) \o <<x>> \o SubSeq(r, k + 1, Len(r))

\* Variant: the items of all checklists are sorted together.
ItemsInOrderGlobal(checklists) ==
  LET RECURSIVE Flat(_)
      Flat(cls) == IF cls = <<>> THEN <<>>
                   ELSE Head(cls).checkItems \o Flat(Tail(cls))
  IN  SortByPos(Flat(checklists))

\* for cl in checklists: for item in sorted(cl['checkItems'], key=pos)
RECURSIVE ItemsInOrder(_)
ItemsInOrder(checklists) ==
  IF checklists = <<>> THEN <<>>
  ELSE SortByPos(Head(checklists).checkItems) \o ItemsInOrder(Tail(checklists))

\* "\n".join(lines)
RECURSIVE Join(_)
Join(lines) ==
  IF lines = <<>> THEN <<>>
  ELSE IF Len(lines) = 1 THEN lines[1]
  ELSE lines[1] \o <<NL>> \o Join(Tail(lines))

\* datetime.now(timezone.utc).isoformat(), the clock reading being the
\* seconds of a fixed minute.
IsoFormat(now) ==
  <<"2025-01-01T00:00:">> \o zfill(IntToStr(now), 2) \o <<"+00:00">>

\* {l['id']: l['name'] if l['name'] else l['color'] for l in labels}
LabelsMap(labels) ==
  [id \in {labels[k].id : k \in DOMAIN labels} |->
     LET k == CHOOSE k \in DOMAIN labels :
                /\ labels[k].id = id
                /\ \A j \in DOMAIN labels : labels[j].id = id => j <= k
     IN  IF Truthy(labels[k].name) THEN labels[k].name ELSE labels[k].color]

ItemLine(item) ==
  <<"  - { desc: ">> \o escape_yaml_string(item.name) \o <<", done: ">>
    \o <<IF item.state = "complete" THEN "true" ELSE "false">> \o <<" }">>

\* lines 73-79: the checklist block for the checklists of one card
ChecklistBlock(checklists) ==
  IF checklists # <<>>
  THEN LET items == ItemsInOrder(checklists)
       IN  << <<"checklist:">> >> \o [k \in 1..Len(items) |-> ItemLine(items[k])]
  ELSE <<>>

\* The list `lines` of build_frontmatter before it is joined.
FrontmatterLines(card, lmap, list_pos, checklists_data, now) ==
  LET known(id) == id \in DOMAIN lmap
      ids == SelectSeq(card.idLabels, known)
      labels == [k \in 1..Len(ids) |-> lmap[ids[k]]]
      own(cl) == cl.idCard = card.id
      checklists == SelectSeq(checklists_data, own)
  IN  << <<"---">>,
         <<"title: ">> \o escape_yaml_string(card.name),
         <<"id: ">> \o IntToStr(card.idShort),
         <<"created: ">> \o IsoFormat(now),
         <<"list_order: ">> \o IntToStr(list_pos) >>
      \o (IF labels # <<>>
          THEN << <<"labels:">> >>
                 \o [k \in 1..Len(labels) |->
                       <<"  - ">> \o escape_yaml_string(labels[k])]
          ELSE <<>>)
      \o (IF Truthy(card.due) THEN << <<"due: ">> \o card.due >> ELSE <<>>)
      \o ChecklistBlock(checklists)
      \o << <<"trello_data:">>,
            <<"  id: ">> \o Str(card.id),
            <<"  url: ">> \o Str(card.url),
            <<"  date_closed: ">> \o Str(card.dateClosed),
            <<"  date_last_activity: ">> \o Str(card.dateLastActivity),
            <<"  date_completed: ">> \o Str(card.dateCompleted),
            <<"---", NL>> >>

build_frontmatter(card, lmap, list_pos, checklists_data, now) ==
  Join(FrontmatterLines(card, lmap, list_pos, checklists_data, now))

\* body = f"# {card['name']}\n\n{card['desc']}\n"
Body(card) == <<"# ">> \o Str(card.name) \o <<NL, NL>> \o Str(card.desc) \o <<NL>>

(***************************************************************************)
(* The export read from the input file.                                    *)
(***************************************************************************)
ListIds == {"L1", "L2"}
PosVals == 1..2
ShortIds == 1..2
Times == 1..2

CardId(k) == <<"c">> \o IntToStr(k)

\* The fields of the k-th card that the conversion copies verbatim.
CardFields(k) ==
  [ord |-> k, id |-> CardId(k),
   name |-> IF k = 1 THEN <<"B","u","y"," ",DQ,"m",DQ>>
            ELSE <<"c","a","r","d">> \o IntToStr(k),
   desc |-> <<"2","%">>,
   idLabels |-> IF k = 1 THEN <<"lb1", "lbX", "lb2">> ELSE <<>>,
   due |-> IF k = 1 THEN <<"2024-01-01">> ELSE None,
   url |-> <<"http://x/">> \o IntToStr(k),
   dateClosed |-> None, dateLastActivity |-> <<"2020-01-01">>,
   dateCompleted |-> None]

MkCard(k, short, lid, p) ==
  [ord |-> k, id |-> CardFields(k).id, name |-> CardFields(k).name,
   desc |-> CardFields(k).desc, idLabels |-> CardFields(k).idLabels,
   due |-> CardFields(k).due, url |-> CardFields(k).url,
   dateClosed |-> CardFields(k).dateClosed,
   dateLastActivity |-> CardFields(k).dateLastActivity,
   dateCompleted |-> CardFields(k).dateCompleted,
   idShort |-> short, idList |-> lid, pos |-> p]

SampleLabels ==
  << [id |-> "lb1", name |-> <<"u","r","g">>, color |-> <<"r","e","d">>],
     [id |-> "lb2", name |-> <<>>, color |-> <<"b","l","u","e">>] >>

SampleChecklists ==
  << [idCard |-> CardId(1),
      checkItems |-> << [name |-> <<"T"," ",DQ,"A",DQ>>, state |-> "complete", pos |-> 2],
                        [name |-> <<"x">>, state |-> "incomplete", pos |-> 1] >>] >>

\* The name of the k-th list of an export: two names that exercise every
\* step of sanitize_filename, in turn.
ListName(k) ==
  IF k % 2 = 1 THEN <<"T","o"," ","D","o">> ELSE <<"-","D","o","n","e","?">>

\* ord is the position of a list or card in the export (its identity).
\* Lists of any id and pos.
ListSeqs ==
  UNION { { [k \in 1..n |-> [ord |-> k, id |-> f[k][1], name |-> ListName(k),
                             pos |-> f[k][2]]] :
              f \in [1..n -> ListIds \X PosVals] } : n \in 0..MaxLists }

\* Lists of one name and one pos: the list L1 alone, and the lists L1, L2.
PlainListSeqs ==
  { [k \in 1..n |-> [ord |-> k, id |-> IF k = 1 THEN "L1" ELSE "L2",
                     name |-> ListName(1), pos |-> 1]] : n \in 1..2 }

CardSeqsOf(Shorts, Poss) ==
  UNION { { [k \in 1..n |-> MkCard(k, f[k][1], f[k][2], f[k][3])] :
              f \in [1..n -> Shorts \X ListIds \X Poss] } : n \in 0..MaxCards }

\* Cards of any idShort, idList and pos; and cards that differ in their
\* idList only, the idShort being the position in the export.
CardSeqs == CardSeqsOf(ShortIds, PosVals)
PlainCardSeqs ==
  UNION { { [k \in 1..n |-> MkCard(k, k, f[k], 1)] : f \in [1..n -> ListIds] } :
            n \in 0..MaxCards }

ExportOf(l, c) ==
  [lists |-> l, cards |-> c, labels |-> SampleLabels, checklists |-> SampleChecklists]

\* The exports of the model: any lists with plain cards, and plain lists with
\* any cards.
Exports ==
  { ExportOf(l, c) : l \in ListSeqs, c \in PlainCardSeqs }
    \cup { ExportOf(l, c) : l \in PlainListSeqs, c \in CardSeqs }

NoExport == [lists |-> <<>>, cards |-> <<>>, labels |-> <<>>, checklists |-> <<>>]

(***************************************************************************)
(* The output tree: the set of directories and the content of each file,   *)
(* both by path below the output directory (<<>> is the output directory). *)
(***************************************************************************)
NoFiles == [p \in {} |-> <<>>]

EmptyTree == [dirs |-> {}, files |-> NoFiles]

OldDir == <<"0","0","___","t","o","_","d","o">>
OldText == <<"---", NL, "title: ", DQ, "o", "l", "d", DQ, NL, "---", NL, NL>>

\* A tree left by an earlier run on another export, with a note of the user
\* and a regular file where a list directory may have to go.
StaleTree ==
  [dirs |-> {<<>>, <<OldDir>>},
   files |-> [p \in { <<OldDir, <<"1", ".md">> >>, <<OldDir, <<"9", ".md">> >>,
                      << <<"n","o","t","e","s">> >>,
                      << <<"0","1","___","d","o","n","e">> >> } |-> OldText]]

OutTrees == {EmptyTree, StaleTree}

\* os.makedirs(path, exist_ok=True) raises when a regular file is in the way.
MakedirsFails(files, path) ==
  \E k \in 1..Len(path) : SubSeq(path, 1, k) \in DOMAIN files

\* os.makedirs(path, exist_ok=True): the directory and its parents.
Makedirs(dirs, path) == dirs \cup { SubSeq(path, 1, k) : k \in 0..Len(path) }

\* Variant: the file is opened for appending.
WriteFileAppend(files, path, text) ==
  [p \in DOMAIN files \cup {path} |->
     IF p = path THEN (IF path \in DOMAIN files THEN files[path] ELSE <<>>) \o text
     ELSE files[p]]

\* Variant: the list directory is emptied before the file is written.
WriteFileClearDir(files, path, text) ==
  [p \in {q \in DOMAIN files : Front(q) # Front(path)} \cup {path} |->
     IF p = path THEN text ELSE files[p]]

\* with open(file_path, 'w') as f: f.write(frontmatter); f.write(body)
WriteFile(files, path, text) ==
  [p \in DOMAIN files \cup {path} |-> IF p = path THEN text ELSE files[p]]

(***************************************************************************)
(* main()                                                                  *)
(***************************************************************************)
InputPath == <<"trello_export.json">>

\* exit(1) after the missing input file is reported.
MissingInputStatus == 1

\* Variant: the status of a normal end is used for the missing input file.
ExitStatusNormal(found) == 0

\* The exit status once the input was looked up: none yet (-1) when it was
\* read, that of exit(1) when it is missing.
ExitStatusAfterRead(found) == IF found THEN -1 ELSE MissingInputStatus

\* Variant: the index is left out of the directory name.
FolderNameNoIndex(idx, list_name) == <<"___">> \o sanitize_filename(list_name)

\* f"{str(folder_idx).zfill(2)}___{sanitize_filename(list_name)}"
FolderName(idx, list_name) ==
  zfill(IntToStr(idx), 2) \o <<"___">> \o sanitize_filename(list_name)

\* Variant: every list of the export is kept.
ValidListsAll(lists, active_list_ids) == SortByPos(lists)

\* lines 116-119: the lists sorted by pos that some card refers to
ValidLists(lists, active_list_ids) ==
  LET active(lst) == lst.id \in active_list_ids
  IN  SelectSeq(SortByPos(lists), active)

\* lines 121-123: the cards of each list id, in the order of the export
CardsByList(cards) ==
  [lid \in {cards[k].idList : k \in DOMAIN cards} |->
     LET mine(c) == c.idList = lid IN SelectSeq(cards, mine)]

\* Variant: enumerate(list_cards) without start=1.
ListOrderFromZero(i) == i - 1

\* enumerate(list_cards, start=1): the number given to the i-th card
ListOrder(i) == i

locals == <<valid_lists, cards_by_list, labels_map, folder_idx, list_dir,
            list_cards, card_i>>
tree == <<fsDirs, fsFiles>>
input == <<inputExists, data, fs0>>
pure == <<escIn, escOut, fmOut>>
logs == <<mkdirLog, writeLog>>

InitLocals ==
  /\ valid_lists = <<>> /\ cards_by_list = <<>> /\ labels_map = <<>>
  /\ folder_idx = 0 /\ list_dir = <<>> /\ list_cards = <<>> /\ card_i = 0

\* The state when the process starts: an input file that may be missing and
\* an output target that may hold an earlier tree.
Init ==
  /\ \/ inputExists = TRUE /\ data \in Exports
     \/ inputExists = FALSE /\ data = NoExport
  /\ fs0 \in OutTrees
  /\ fsDirs = fs0.dirs /\ fsFiles = fs0.files
  /\ pc = "start" /\ exitStatus = -1 /\ stdout = <<>>
  /\ InitLocals
  /\ mkdirLog = <<>> /\ writeLog = <<>>
  /\ run = 1 /\ snap = NoFiles
  /\ escIn = <<>> /\ escOut = <<>> /\ fmOut = <<>>

\* lines 104-110: read the export, or report the missing file and exit(1)
ReadInput ==
  /\ pc = "start"
  /\ stdout' = stdout
        \o << <<"Reading Trello export JSON ">> \o InputPath \o <<"...">> >>
        \o (IF inputExists THEN <<>>
            ELSE << <<"Error: Could not find ">> \o InputPath \o <<".">> >>)
  /\ pc' = IF inputExists THEN "group" ELSE "exited"
  /\ exitStatus' = ExitStatusAfterRead(inputExists)
  /\ UNCHANGED <<input, tree, locals, logs, run, snap, pure>>

\* lines 112-126: active list ids, valid lists, cards by list, label map
Group ==
  /\ pc = "group"
  /\ LET active_list_ids == {data.cards[k].idList : k \in DOMAIN data.cards}
     IN  valid_lists' = ValidLists(data.lists, active_list_ids)
  /\ cards_by_list' = CardsByList(data.cards)
  /\ labels_map' = LabelsMap(data.labels)
  /\ folder_idx' = 0
  /\ pc' = "lists"
  /\ UNCHANGED <<input, tree, exitStatus, stdout, list_dir, list_cards, card_i,
                 logs, run, snap, pure>>

\* lines 127-137: the next valid list: make its directory, sort its cards
MakeListDir ==
  /\ pc = "lists"
  /\ folder_idx < Len(valid_lists)
  /\ LET lst == valid_lists[folder_idx + 1]
         folder_name == FolderName(folder_idx, lst.name)
         dir == <<folder_name>>
     IN  IF MakedirsFails(fsFiles, dir)
         THEN /\ pc' = "crashed"
              /\ exitStatus' = 1
              /\ UNCHANGED <<tree, stdout, locals, logs>>
         ELSE /\ fsDirs' = Makedirs(fsDirs, dir)
              /\ list_dir' = dir
              /\ mkdirLog' = Append(mkdirLog, [ord |-> lst.ord, name |-> folder_name])
              /\ stdout' = Append(stdout, <<"  Processing List: ">> \o lst.name)
              /\ IF lst.id \in DOMAIN cards_by_list
                 THEN /\ list_cards' = SortByPos(cards_by_list[lst.id])
                      /\ cards_by_list' =
                           [cards_by_list EXCEPT ![lst.id] = SortByPos(@)]
                 ELSE /\ list_cards' = <<>>
                      /\ UNCHANGED cards_by_list
              /\ card_i' = 1
              /\ pc' = "cards"
              /\ UNCHANGED <<fsFiles, exitStatus, valid_lists, labels_map,
                             folder_idx, writeLog>>
  /\ UNCHANGED <<input, run, snap, pure>>

\* lines 139-148: render the next card of the list and write its file
WriteCard ==
  /\ pc = "cards"
  /\ card_i <= Len(list_cards)
  /\ LET card == list_cards[card_i]
         filename == IntToStr(card.idShort) \o <<".md">>
         file_path == Append(list_dir, filename)
     IN  \E now \in Times :
           LET frontmatter == build_frontmatter(card, labels_map, ListOrder(card_i),
                                                data.checklists, now)
           IN  IF file_path \in fsDirs
               THEN /\ pc' = "crashed"
                    /\ exitStatus' = 1
                    /\ UNCHANGED <<fsFiles, card_i, writeLog>>
               ELSE /\ fsFiles' = WriteFile(fsFiles, file_path, frontmatter \o Body(card))
                    /\ writeLog' = Append(writeLog,
                                     [card |-> card.ord, path |-> file_path,
                                      text |-> frontmatter \o Body(card)])
                    /\ card_i' = card_i + 1
                    /\ UNCHANGED <<pc, exitStatus>>
  /\ UNCHANGED <<input, fsDirs, stdout, valid_lists, cards_by_list, labels_map,
                 folder_idx, list_dir, list_cards, mkdirLog, run, snap, pure>>

\* line 150: the cards of the list are done
EndList ==
  /\ pc = "cards"
  /\ card_i > Len(list_cards)
  /\ folder_idx' = folder_idx + 1
  /\ pc' = "lists"
  /\ UNCHANGED <<input, tree, exitStatus, stdout, valid_lists, cards_by_list,
                 labels_map, list_dir, list_cards, card_i, logs, run, snap, pure>>

\* line 152: the summary line; main() returns and the process ends with 0
Finish ==
  /\ pc = "lists"
  /\ folder_idx >= Len(valid_lists)
  /\ stdout' = Append(stdout, <<"Converted Trello to Markdown at ">>)
  /\ exitStatus' = 0
  /\ pc' = "done"
  /\ UNCHANGED <<input, tree, locals, logs, run, snap, pure>>

Next == ReadInput \/ Group \/ MakeListDir \/ WriteCard \/ EndList \/ Finish

Spec == Init /\ [][Next]_vars

(***************************************************************************)
(* The tool run a second time on the same input and output target.         *)
(***************************************************************************)
InitTwice ==
  /\ inputExists = TRUE
  /\ data \in { ExportOf(l, c) : l \in PlainListSeqs, c \in CardSeqsOf(ShortIds, {1}) }
  /\ fs0 = EmptyTree
  /\ fsDirs = fs0.dirs /\ fsFiles = fs0.files
  /\ pc = "start" /\ exitStatus = -1 /\ stdout = <<>>
  /\ InitLocals
  /\ mkdirLog = <<>> /\ writeLog = <<>>
  /\ run = 1 /\ snap = NoFiles
  /\ escIn = <<>> /\ escOut = <<>> /\ fmOut = <<>>

\* The process is started again after a run that completed; snap keeps the
\* files as the first run left them.
Rerun ==
  /\ pc = "done"
  /\ run = 1
  /\ run' = 2
  /\ snap' = fsFiles
  /\ pc' = "start" /\ exitStatus' = -1 /\ stdout' = <<>>
  /\ valid_lists' = <<>> /\ cards_by_list' = <<>> /\ labels_map' = <<>>
  /\ folder_idx' = 0 /\ list_dir' = <<>> /\ list_cards' = <<>> /\ card_i' = 0
  /\ mkdirLog' = <<>> /\ writeLog' = <<>>
  /\ UNCHANGED <<input, tree, pure>>

NextTwice == Next \/ Rerun

SpecTwice == InitTwice /\ [][NextTwice]_vars

(***************************************************************************)
(* escape_yaml_string applied to the strings over a small alphabet.        *)
(***************************************************************************)
EscAlphabet == {BS, DQ, NL, CR, "a", " "}

EscStrings == UNION { [1..n -> EscAlphabet] : n \in 0..MaxLen }

InitPure ==
  /\ inputExists = FALSE /\ fs0 = EmptyTree
  /\ fsDirs = {} /\ fsFiles = NoFiles
  /\ exitStatus = -1 /\ stdout = <<>>
  /\ InitLocals
  /\ mkdirLog = <<>> /\ writeLog = <<>>
  /\ run = 1 /\ snap = NoFiles

InitEsc ==
  /\ InitPure
  /\ data = NoExport
  /\ pc = "escape"
  /\ escIn \in EscStrings
  /\ escOut = <<>> /\ fmOut = <<>>

Escape ==
  /\ pc = "escape"
  /\ escOut' = escape_yaml_string(escIn)
  /\ pc' = "escaped"
  /\ UNCHANGED <<input, tree, exitStatus, stdout, locals, logs, run, snap, escIn, fmOut>>

NextEsc == Escape

SpecEsc == InitEsc /\ [][NextEsc]_vars

(***************************************************************************)
(* build_frontmatter applied to one card and a collection of checklists.   *)
(***************************************************************************)
ItemChoices ==
  { [name |-> <<"a">>, state |-> "complete", pos |-> 1],
    [name |-> <<"T"," ",DQ,"A",DQ>>, state |-> "incomplete", pos |-> 1],
    [name |-> <<"a">>, state |-> "complete", pos |-> 2] }

ItemSeqs == UNION { [1..n -> ItemChoices] : n \in 0..MaxItems }

\* A checklist of another card; the renderer drops it by its idCard.
ForeignChecklist ==
  [idCard |-> CardId(2),
   checkItems |-> << [name |-> <<"z">>, state |-> "complete", pos |-> 1] >>]

\* Checklists of the rendered card with any items, and the foreign one.
ChecklistSeqs ==
  UNION { [1..n -> { [idCard |-> CardId(1), checkItems |-> its] : its \in ItemSeqs }
                     \cup {ForeignChecklist}] : n \in 0..MaxChecklists }

TheCard == MkCard(1, 1, "L1", 1)

InitFM ==
  /\ InitPure
  /\ data \in { [lists |-> <<>>, cards |-> <<TheCard>>, labels |-> SampleLabels,
                 checklists |-> cls] : cls \in ChecklistSeqs }
  /\ pc = "render"
  /\ escIn = <<>> /\ escOut = <<>> /\ fmOut = <<>>

BuildFrontmatter ==
  /\ pc = "render"
  /\ \E now \in Times :
       fmOut' = build_frontmatter(data.cards[1], LabelsMap(data.labels), 1,
                                  data.checklists, now)
  /\ pc' = "rendered"
  /\ UNCHANGED <<input, tree, exitStatus, stdout, locals, logs, run, snap, escIn, escOut>>

NextFM == BuildFrontmatter

SpecFM == InitFM /\ [][NextFM]_vars

(***************************************************************************)
(* Properties of escape_yaml_string (SpecEsc).                             *)
(***************************************************************************)
\* A reader of a YAML double-quoted scalar body: \\ is a backslash, \" a quote.
RECURSIVE Unescape(_)
Unescape(t) ==
  IF t = <<>> THEN <<>>
  ELSE IF Head(t) = BS /\ Len(t) >= 2 /\ t[2] \in {BS, DQ}
       THEN <<t[2]>> \o Unescape(Tail(Tail(t)))
       ELSE <<Head(t)>> \o Unescape(Tail(t))

YamlDecode(t) == Unescape(SubSeq(t, 2, Len(t) - 1))

\* A quote that no backslash escapes, or a backslash that escapes nothing.
RECURSIVE HasBareQuote(_)
HasBareQuote(t) ==
  IF t = <<>> THEN FALSE
  ELSE IF Head(t) = DQ THEN TRUE
  ELSE IF Head(t) = BS THEN (Len(t) < 2 \/ HasBareQuote(Tail(Tail(t))))
  ELSE HasBareQuote(Tail(t))

\* s with every CR removed and every newline replaced by one space.
Collapsed(s) ==
  LET notCR(c) == c # CR
      t == SelectSeq(s, notCR)
  IN  [k \in 1..Len(t) |-> IF t[k] = NL THEN " " ELSE t[k]]

\* C8: decoding escape_yaml_string(s) as a YAML double-quoted scalar yields s
\* with CR removed and newlines turned into spaces; the escaped text has no
\* unescaped quote and no raw newline; the empty string escapes to "".
C8_EscapeRoundTrip ==
  pc = "escaped" =>
    IF escIn = <<>> THEN escOut = <<DQ, DQ>>
    ELSE /\ Len(escOut) >= 2 /\ escOut[1] = DQ /\ escOut[Len(escOut)] = DQ
         /\ YamlDecode(escOut) = Collapsed(escIn)
         /\ ~HasBareQuote(SubSeq(escOut, 2, Len(escOut) - 1))
         /\ \A k \in DOMAIN escOut : escOut[k] # NL

C8_Witness ==
  /\ pc = "escaped"
  /\ escIn = <<BS, DQ, NL>>
  /\ escOut = <<DQ, BS, BS, BS, DQ, " ", DQ>>

(***************************************************************************)
(* Properties of the checklist block of build_frontmatter (SpecFM).        *)
(***************************************************************************)
\* The index of the first newline of t at or after k (Len(t) + 1 if none).
RECURSIVE NextNL(_, _)
NextNL(t, k) == IF k > Len(t) \/ t[k] = NL THEN k ELSE NextNL(t, k + 1)

\* The index at which the i-th line of t starts.
RECURSIVE LineStart(_, _)
LineStart(t, i) == IF i = 1 THEN 1 ELSE NextNL(t, LineStart(t, i - 1)) + 1

\* text.split("\n")[i - 1]
LineAt(t, i) == SubSeq(t, LineStart(t, i), NextNL(t, LineStart(t, i)) - 1)

\* The lines of t from index k on.
RECURSIVE SplitFrom(_, _)
SplitFrom(t, k) ==
  LET e == NextNL(t, k)
  IN  <<SubSeq(t, k, e - 1)>> \o (IF e > Len(t) THEN <<>> ELSE SplitFrom(t, e + 1))

\* text.split("\n")
SplitLines(t) == SplitFrom(t, 1)

IsEntry(line) == line # <<>> /\ line[1] = "  - { desc: "

\* The checklist entries of a rendered frontmatter, in their order.
ChecklistEntries(text) == SelectSeq(SplitLines(text), IsEntry)

HasChecklistKey(text) ==
  \E k \in DOMAIN SplitLines(text) : SplitLines(text)[k] = <<"checklist:">>

\* The checklists of the export owned by the rendered card.
OwnChecklists ==
  LET own(cl) == cl.idCard = data.cards[1].id
  IN  SelectSeq(data.checklists, own)

RECURSIVE AllItems(_)
AllItems(cls) ==
  IF cls = <<>> THEN <<>> ELSE Head(cls).checkItems \o AllItems(Tail(cls))

\* 1-based rank of the m-th element of s by pos, equal pos in original order.
RankIn(s, m) ==
  1 + Cardinality({j \in DOMAIN s :
                     s[j].pos < s[m].pos \/ (s[j].pos = s[m].pos /\ j < m)})

Perms(n) == {f \in [1..n -> 1..n] : \A i, j \in 1..n : i # j => f[i] # f[j]}

\* C9 as stated: the entries are all the items of the card's checklists in
\* ascending order of pos across the whole aggregated sequence.
C9_GlobalPosOrder ==
  pc = "rendered" =>
    LET items == AllItems(OwnChecklists)
        entries == ChecklistEntries(fmOut)
    IN  /\ Len(entries) = Len(items)
        /\ \E f \in Perms(Len(items)) :
             /\ \A i, j \in 1..Len(items) : i < j => items[f[i]].pos <= items[f[j]].pos
             /\ \A i \in 1..Len(items) : entries[i] = ItemLine(items[f[i]])

\* C9 amended: the entries are all the items of the card's checklists, the
\* checklists in the order of the export and the items of each checklist in
\* ascending order of pos (equal pos in original order).
C9_PerChecklistPosOrder ==
  pc = "rendered" =>
    LET own == OwnChecklists
        entries == ChecklistEntries(fmOut)
        offset(k) == Len(AllItems(SubSeq(own, 1, k - 1)))
    IN  /\ Len(entries) = Len(AllItems(own))
        /\ \A k \in DOMAIN own : \A m \in DOMAIN own[k].checkItems :
             entries[offset(k) + RankIn(own[k].checkItems, m)]
               = ItemLine(own[k].checkItems[m])

C9_Witness ==
  /\ pc = "rendered"
  /\ Len(OwnChecklists) = 2
  /\ \E a \in DOMAIN OwnChecklists[1].checkItems :
       \E b \in DOMAIN OwnChecklists[2].checkItems :
         /\ OwnChecklists[1].checkItems[a].pos > OwnChecklists[2].checkItems[b].pos
         /\ OwnChecklists[1].checkItems[a].name # OwnChecklists[2].checkItems[b].name
  /\ Len(ChecklistEntries(fmOut)) >= 2

\* C10 as stated: the checklist key is emitted only if the card has at least
\* one checklist item, and an entry follows the key.
C10_KeyOnlyWithItems ==
  pc = "rendered" =>
    (HasChecklistKey(fmOut) =>
       /\ AllItems(OwnChecklists) # <<>>
       /\ \E k \in DOMAIN SplitLines(fmOut) :
            /\ SplitLines(fmOut)[k] = <<"checklist:">>
            /\ k < Len(SplitLines(fmOut))
            /\ IsEntry(SplitLines(fmOut)[k + 1]))

(***************************************************************************)
(* Properties of main() (Spec).                                            *)
(***************************************************************************)
\* The k-th list of the export is referred to by some card.
IsActive(k) ==
  \E c \in DOMAIN data.cards : data.cards[c].idList = data.lists[k].id

\* 0-based rank of the k-th list among the active lists by pos, equal pos in
\* the order of the export.
ActiveRank(k) ==
  Cardinality({j \in DOMAIN data.lists :
     /\ IsActive(j)
     /\ \/ data.lists[j].pos < data.lists[k].pos
        \/ data.lists[j].pos = data.lists[k].pos /\ j < k})

\* 1-based rank of the c-th card among the cards of its list by pos.
CardRank(c) ==
  1 + Cardinality({j \in DOMAIN data.cards :
        /\ data.cards[j].idList = data.cards[c].idList
        /\ \/ data.cards[j].pos < data.cards[c].pos
           \/ data.cards[j].pos = data.cards[c].pos /\ j < c})

Pad2(r) == IF r < 10 THEN <<"0", Digits[r + 1]>> ELSE IntToStr(r)

ExpectedDir(k) ==
  Pad2(ActiveRank(k)) \o <<"___">> \o sanitize_filename(data.lists[k].name)

ExpectedPath(k, c) ==
  <<ExpectedDir(k), IntToStr(data.cards[c].idShort) \o <<".md">> >>

\* C1: after a run that completes, a directory has been made for a list iff
\* some card's idList is the id of that list.
C1_DirIffActive ==
  pc = "done" =>
    \A k \in DOMAIN data.lists :
      (\E j \in DOMAIN mkdirLog :
          mkdirLog[j].ord = k /\ <<mkdirLog[j].name>> \in fsDirs) <=> IsActive(k)

C1_Witness ==
  /\ pc = "done"
  /\ Len(mkdirLog) = 1
  /\ \E k, j \in DOMAIN data.lists :
       /\ ~IsActive(k) /\ IsActive(j)
       /\ data.lists[k].pos < data.lists[j].pos

\* C2: the j-th directory made is that of the active list of rank j-1 by pos
\* (equal pos in export order) and is named <rank padded to 2>___<sanitized
\* name>; a run that completes has made one directory per active list.
C2_DirNamesByRank ==
  /\ \A j \in DOMAIN mkdirLog :
       /\ IsActive(mkdirLog[j].ord)
       /\ ActiveRank(mkdirLog[j].ord) = j - 1
       /\ mkdirLog[j].name = ExpectedDir(mkdirLog[j].ord)
       /\ <<mkdirLog[j].name>> \in fsDirs
  /\ pc = "done" =>
       Len(mkdirLog) = Cardinality({k \in DOMAIN data.lists : IsActive(k)})

C2_Witness ==
  /\ pc = "done"
  /\ Len(mkdirLog) = 2
  /\ mkdirLog[1].ord = 2
  /\ data.lists[2].pos < data.lists[1].pos
  /\ mkdirLog[1].name = <<"0","0","___","d","o","n","e">>
  /\ mkdirLog[2].name = <<"0","1","___","t","o","_","d","o">>

\* C3: the list_order line of every file written holds the 1-based rank of
\* the card by pos among the cards of its list (equal pos in export order);
\* the files of a list are written in that order and, when the run
\* completes, the values of a list are exactly 1..m.
C3_ListOrderIsRank ==
  /\ \A w \in DOMAIN writeLog :
       LET r == CardRank(writeLog[w].card)
       IN  /\ LineAt(writeLog[w].text, 5) = <<"list_order: ">> \o IntToStr(r)
           /\ IF r = 1
              THEN w = 1 \/ Front(writeLog[w - 1].path) # Front(writeLog[w].path)
              ELSE /\ w > 1
                   /\ Front(writeLog[w - 1].path) = Front(writeLog[w].path)
                   /\ CardRank(writeLog[w - 1].card) = r - 1
  /\ pc = "done" =>
       \A j \in DOMAIN mkdirLog :
         Cardinality({w \in DOMAIN writeLog : Front(writeLog[w].path) = <<mkdirLog[j].name>>})
           = Cardinality({c \in DOMAIN data.cards :
                            data.cards[c].idList = data.lists[mkdirLog[j].ord].id})

C3_Witness ==
  /\ pc = "done"
  /\ Len(writeLog) = 2
  /\ writeLog[1].card = 2 /\ writeLog[2].card = 1
  /\ data.cards[1].idList = data.cards[2].idList
  /\ LineAt(writeLog[2].text, 5) = <<"list_order: ", "2">>

\* C5 as stated: after a run that completes every card has been written to
\* <idShort>.md in the directory of its list, no two cards share a path and
\* the number of files written is the number of cards.
C5_OneFilePerCard ==
  pc = "done" =>
    /\ \A c \in DOMAIN data.cards :
         \E k \in DOMAIN data.lists : \E w \in DOMAIN writeLog :
           /\ data.lists[k].id = data.cards[c].idList
           /\ writeLog[w].card = c
           /\ writeLog[w].path = ExpectedPath(k, c)
    /\ \A v, w \in DOMAIN writeLog :
         writeLog[v].card # writeLog[w].card => writeLog[v].path # writeLog[w].path
    /\ Cardinality({writeLog[w].path : w \in DOMAIN writeLog}) = Len(data.cards)

\* C5 amended: after a run that completes, a card is written to <idShort>.md
\* in the directory of every list whose id is its idList, and nowhere else;
\* two cards share a path exactly when they have the same idList, naming a
\* list, and the same idShort, and the file then holds the card written
\* last; the number of files is the number of (list, idShort) pairs.
C5_FilePerListAndShortId ==
  pc = "done" =>
    /\ \A c \in DOMAIN data.cards : \A k \in DOMAIN data.lists :
         data.lists[k].id = data.cards[c].idList =>
           \E w \in DOMAIN writeLog :
             writeLog[w].card = c /\ writeLog[w].path = ExpectedPath(k, c)
    /\ \A w \in DOMAIN writeLog : \E k \in DOMAIN data.lists :
         /\ data.lists[k].id = data.cards[writeLog[w].card].idList
         /\ writeLog[w].path = ExpectedPath(k, writeLog[w].card)
    /\ \A c, d \in DOMAIN data.cards :
         c # d =>
           ((\E v, w \in DOMAIN writeLog :
                writeLog[v].card = c /\ writeLog[w].card = d
                /\ writeLog[v].path = writeLog[w].path)
            <=> /\ data.cards[c].idList = data.cards[d].idList
                /\ data.cards[c].idShort = data.cards[d].idShort
                /\ \E k \in DOMAIN data.lists : data.lists[k].id = data.cards[c].idList)
    /\ \A w \in DOMAIN writeLog :
         (\A v \in DOMAIN writeLog : v > w => writeLog[v].path # writeLog[w].path)
           => fsFiles[writeLog[w].path] = writeLog[w].text
    /\ Cardinality({writeLog[w].path : w \in DOMAIN writeLog})
         = Cardinality({<<k, data.cards[c].idShort>> :
                          <<k, c>> \in {kc \in (DOMAIN data.lists) \X (DOMAIN data.cards) :
                             data.lists[kc[1]].id = data.cards[kc[2]].idList}})

C5_Witness ==
  /\ pc = "done"
  /\ Len(writeLog) = 2
  /\ writeLog[1].card # writeLog[2].card
  /\ writeLog[1].path = writeLog[2].path
  /\ fsFiles[writeLog[1].path] = writeLog[2].text

\* C6: with the input file missing the run ends with status 1 after the
\* error message, the output tree being as it was found; a run that reaches
\* the end of main() ends with status 0.
C6_MissingInputExit ==
  /\ ~inputExists =>
       /\ fsDirs = fs0.dirs /\ fsFiles = fs0.files
       /\ mkdirLog = <<>> /\ writeLog = <<>>
       /\ pc \in {"start", "exited"}
       /\ pc = "exited" =>
            /\ exitStatus = 1
            /\ stdout[Len(stdout)] = <<"Error: Could not find ">> \o InputPath \o <<".">>
  /\ pc = "exited" => ~inputExists
  /\ pc = "done" => exitStatus = 0 /\ inputExists

C6_Witness ==
  /\ pc = "exited"
  /\ exitStatus = 1
  /\ fs0 = StaleTree
  /\ fsFiles = StaleTree.files

\* The output paths of the cards of the export.
CurrentCardPaths ==
  { ExpectedPath(kc[1], kc[2]) :
      kc \in {kc \in (DOMAIN data.lists) \X (DOMAIN data.cards) :
                data.lists[kc[1]].id = data.cards[kc[2]].idList} }

\* C7: every file and directory found under the output target is still
\* there, files that are not the output path of a card of the export are
\* unchanged, and no file appears at any other path.
C7_OnlyCardPathsChange ==
  LET paths == CurrentCardPaths
  IN  /\ fs0.dirs \subseteq fsDirs
      /\ DOMAIN fs0.files \subseteq DOMAIN fsFiles
      /\ \A p \in DOMAIN fs0.files : p \notin paths => fsFiles[p] = fs0.files[p]
      /\ DOMAIN fsFiles \subseteq DOMAIN fs0.files \cup paths

C7_Witness ==
  /\ pc = "done"
  /\ fs0 = StaleTree
  /\ \E j \in DOMAIN mkdirLog : mkdirLog[j].name = OldDir
  /\ fsFiles[<<OldDir, <<"9", ".md">> >>] = OldText
  /\ fsFiles[<<OldDir, <<"1", ".md">> >>] # OldText

(***************************************************************************)
(* Properties of a second run (SpecTwice).                                 *)
(***************************************************************************)
\* C4 as stated: after the second run every file has the content it had
\* after the first run.
C4_ByteIdentical ==
  (run = 2 /\ pc = "done") => fsFiles = snap

\* Two texts with the same lines but for the value of the created line.
SameButCreated(a, b) ==
  LET la == SplitLines(a)
      lb == SplitLines(b)
  IN  /\ Len(la) = Len(lb)
      /\ \A k \in DOMAIN la :
           IF k = 4
           THEN la[k][1] = "created: " /\ lb[k][1] = "created: "
           ELSE la[k] = lb[k]

\* C4 amended: after the second run the same files exist as after the first
\* and each has the same content except for the value of its created line,
\* which is the clock reading of the run that wrote it.
C4_IdenticalButCreated ==
  (run = 2 /\ pc = "done") =>
    /\ DOMAIN fsFiles = DOMAIN snap
    /\ \A p \in DOMAIN snap : SameButCreated(fsFiles[p], snap[p])

C4_Witness ==
  /\ run = 2 /\ pc = "done"
  /\ \E p \in DOMAIN snap : fsFiles[p] # snap[p]
  /\ \E p \in DOMAIN snap : fsFiles[p] = snap[p]

====
